---- MODULE Spec2Model ----
(* category.rs: the Semigroup / Monoid traits (src/traits.rs) and their     *)
(* instances (src/lib.rs, src/traits.rs).                                   *)
(*                                                                          *)
(* A Rust type is a descriptor [c |-> constructor, args |-> <<types>>]; a   *)
(* value is the payload of its newtype.  Trait dispatch is static in Rust,  *)
(* so op, empty, concat and repeat take the type as their first argument.   *)
(* Option<T> is <<>> (None) or <<x>> (Some(x)); a pair is <<x, y>>; a Vec   *)
(* or a String is the sequence of its elements.  The primitive integers   *)
(* are IntBits wide and + and * wrap at that width.                         *)
EXTENDS Integers, Sequences, FiniteSets, TLC

VARIABLES pc, call, ty, args, out

vars == <<pc, call, ty, args, out>>

(* ---------------------------------------------------------------- bounds *)

\* Width in bits of the primitive integer payloads ("i" signed, "u" unsigned).
IntBits == 8
\* Integer inputs are the two ends of the type's range and the values within
\* Near of zero.
Near == 2
\* Longest Vec / String value.
MaxLen == 2
\* Longest sequence handed to concat.
MaxSeq == 3
\* Largest n handed to repeat.
MaxRepeat == 3
\* Most test functions a Predicate is built from.
MaxTests == 3

(* ----------------------------------------------------------------- types *)

Ty(c, targs) == [c |-> c, args |-> targs]

Signed == Ty("i", <<>>)
Unsigned == Ty("u", <<>>)
AnyTy == Ty("Any", <<>>)
AllTy == Ty("All", <<>>)
OrderingTy == Ty("Ordering", <<>>)
UnitTy == Ty("Unit", <<>>)
StringTy == Ty("String", <<>>)
PredicateTy == Ty("Predicate", <<>>)
MinTy(T) == Ty("Min", <<T>>)
MaxTy(T) == Ty("Max", <<T>>)
SumTy(T) == Ty("Sum", <<T>>)
ProductTy(T) == Ty("Product", <<T>>)
FirstTy(T) == Ty("First", <<T>>)
LastTy(T) == Ty("Last", <<T>>)
VecTy(T) == Ty("Vec", <<T>>)
OptionTy(T) == Ty("Option", <<T>>)
PairTy(T, U) == Ty("Pair", <<T, U>>)

RECURSIVE Pow2(_)
Pow2(n) == IF n = 0 THEN 1 ELSE 2 * Pow2(n - 1)

IntMin(T) == IF T.c = "i" THEN -Pow2(IntBits - 1) ELSE 0
IntMax(T) == IF T.c = "i" THEN Pow2(IntBits - 1) - 1 ELSE Pow2(IntBits) - 1

\* The value an arithmetic result x takes in the integer type T.
Wrap(T, x) ==
    IF T.c = "i"
    THEN ((x + Pow2(IntBits - 1)) % Pow2(IntBits)) - Pow2(IntBits - 1)
    ELSE x % Pow2(IntBits)

Abs(x) == IF x < 0 THEN -x ELSE x

IntInputs(T) ==
    {x \in IntMin(T)..IntMax(T) :
        \/ Abs(x) <= Near
        \/ x = IntMin(T)
        \/ x = IntMax(T)}

SeqsUpTo(S, n) == UNION {[1..k -> S] : k \in 0..n}

Chars == {"a", "z"}

Orderings == {"Less", "Equal", "Greater"}

RECURSIVE Values(_)
Values(T) ==
    CASE T.c \in {"i", "u"} -> IntInputs(T)
      [] T.c \in {"Any", "All"} -> BOOLEAN
      [] T.c \in {"Min", "Max", "Sum", "Product", "First", "Last"} -> Values(T.args[1])
      [] T.c = "Ordering" -> Orderings
      [] T.c = "Unit" -> {"()"}
      [] T.c = "Vec" -> SeqsUpTo(Values(T.args[1]), MaxLen)
      [] T.c = "String" -> SeqsUpTo(Chars, MaxLen)
      [] T.c = "Option" -> {<<>>} \cup {<<x>> : x \in Values(T.args[1])}
      [] T.c = "Pair" -> {<<x, y>> : x \in Values(T.args[1]), y \in Values(T.args[2])}

(* ------------------------------------------------ instances: src/lib.rs *)

Any_default == FALSE

Any_op(self, other) == self \/ other

\* All with a derived Default: the bool default, false.
All_default_derived == FALSE

All_default == TRUE

All_op(self, other) == self /\ other

\* Ord::min keeps self unless other is strictly smaller.
Min_op(self, other) == IF self <= other THEN self ELSE other

\* T::default() of a primitive integer
Min_default == 0

\* Ord::max keeps other unless self is strictly greater.
Max_op(self, other) == IF self > other THEN self ELSE other

\* T::default() of a primitive integer
Max_default == 0

\* T::zero()
Sum_default == 0

\* Sum with saturating instead of wrapping addition.
Sum_op_saturating(T, self, other) ==
    IF self + other > IntMax(T) THEN IntMax(T)
    ELSE IF self + other < IntMin(T) THEN IntMin(T)
    ELSE self + other

Sum_op(T, self, other) == Wrap(T, self + other)

\* T::one()
Product_default == 1

Product_op(T, self, other) == Wrap(T, self * other)

First_op(self, other) == self

Last_op(self, other) == other

(* --------------------------------------------- instances: src/traits.rs *)

\* Ordering keeping the last verdict that is not Equal.
Ordering_op_last(self, other) == IF other = "Equal" THEN self ELSE other

Ordering_op(self, other) ==
    CASE self = "Less" -> "Less"
      [] self = "Equal" -> other
      [] self = "Greater" -> "Greater"

Ordering_empty == "Equal"

Unit_op(self, other) == "()"

\* The unit type without its own concat: the provided fold.
Unit_concat_provided(this) == IF this = <<>> THEN <<>> ELSE <<"()">>

Unit_concat(this) == <<"()">>

Unit_repeat(self, n) == "()"

Vec_op(self, other) == self \o other

Vec_empty == <<>>

String_op(self, other) == self \o other

String_empty == <<>>

(* ------------------------------------------------- Predicate: src/lib.rs *)

\* A Predicate is the closure it boxes: a test function (numbered i), the
\* closure |a| p(a) && q(a) that op builds over two predicates it owns, or
\* the closure |_| true of empty().
Predicate_new(i) == [n |-> "test", i |-> i, kids |-> <<>>]

\* op whose closure drops the second predicate.
Predicate_op_first(self, other) == self

Predicate_op(self, other) == [n |-> "and", i |-> 0, kids |-> <<self, other>>]

Predicate_empty == [n |-> "true", i |-> 0, kids |-> <<>>]

\* call(self, x): tv[i] is what test i answers on x.  The result is
\* [res |-> the boolean returned, invoked |-> the tests run, in order];
\* && evaluates its right operand only when the left one is true.
RECURSIVE Predicate_call(_, _)
Predicate_call(self, tv) ==
    CASE self.n = "test" -> [res |-> tv[self.i], invoked |-> <<self.i>>]
      [] self.n = "true" -> [res |-> TRUE, invoked |-> <<>>]
      [] self.n = "and" ->
            LET p == Predicate_call(self.kids[1], tv)
            IN  IF p.res
                THEN LET q == Predicate_call(self.kids[2], tv)
                     IN  [res |-> q.res, invoked |-> p.invoked \o q.invoked]
                ELSE [res |-> FALSE, invoked |-> p.invoked]

(* ------------------------------------------------ traits: src/traits.rs *)

RECURSIVE op(_, _, _)

Option_op(T, self, other) ==
    CASE self = <<>> -> other
      [] other = <<>> -> self
      [] OTHER -> <<op(T, self[1], other[1])>>

Pair_op(T, U, self, other) == <<op(T, self[1], other[1]), op(U, self[2], other[2])>>

\* Semigroup::op of type T.
op(T, self, other) ==
    CASE T.c = "Any" -> Any_op(self, other)
      [] T.c = "All" -> All_op(self, other)
      [] T.c = "Min" -> Min_op(self, other)
      [] T.c = "Max" -> Max_op(self, other)
      [] T.c = "Sum" -> Sum_op(T.args[1], self, other)
      [] T.c = "Product" -> Product_op(T.args[1], self, other)
      [] T.c = "First" -> First_op(self, other)
      [] T.c = "Last" -> Last_op(self, other)
      [] T.c = "Predicate" -> Predicate_op(self, other)
      [] T.c = "Ordering" -> Ordering_op(self, other)
      [] T.c = "Unit" -> Unit_op(self, other)
      [] T.c = "Vec" -> Vec_op(self, other)
      [] T.c = "String" -> String_op(self, other)
      [] T.c = "Option" -> Option_op(T.args[1], self, other)
      [] T.c = "Pair" -> Pair_op(T.args[1], T.args[2], self, other)

\* The fold with the operands of op exchanged: x.op(y).
RECURSIVE Semigroup_fold_flipped(_, _, _)
Semigroup_fold_flipped(T, acc, this) ==
    IF this = <<>>
    THEN acc
    ELSE Semigroup_fold_flipped(T,
                                IF acc = <<>>
                                THEN <<Head(this)>>
                                ELSE <<op(T, Head(this), acc[1])>>,
                                Tail(this))

\* The fold of the provided Semigroup::concat: acc is None or Some(y).
RECURSIVE Semigroup_fold(_, _, _)
Semigroup_fold(T, acc, this) ==
    IF this = <<>>
    THEN acc
    ELSE Semigroup_fold(T,
                        IF acc = <<>>
                        THEN <<Head(this)>>
                        ELSE <<op(T, acc[1], Head(this))>>,
                        Tail(this))

\* Semigroup::concat of type T: the provided method, or the unit type's own.
Semigroup_concat(T, this) ==
    IF T.c = "Unit" THEN Unit_concat(this) ELSE Semigroup_fold(T, <<>>, this)

RECURSIVE Semigroup_loop(_, _, _)
Semigroup_loop(T, res, n) ==
    IF n = 0 THEN res ELSE Semigroup_loop(T, op(T, res, res), n - 1)

\* repeat combining with self, not with the running result: res.op(self).
RECURSIVE Semigroup_repeat_linear(_, _, _)
Semigroup_repeat_linear(T, self, n) ==
    IF n = 0 THEN self ELSE op(T, Semigroup_repeat_linear(T, self, n - 1), self)

\* Semigroup::repeat of type T: the provided method, or the unit type's own.
Semigroup_repeat(T, self, n) ==
    IF T.c = "Unit" THEN Unit_repeat(self, n) ELSE Semigroup_loop(T, self, n)

\* Default::default() of the types that are DefaultMonoid.
Default(T) ==
    CASE T.c = "Any" -> Any_default
      [] T.c = "All" -> All_default
      [] T.c = "Min" -> Min_default
      [] T.c = "Max" -> Max_default
      [] T.c = "Sum" -> Sum_default
      [] T.c = "Product" -> Product_default

\* impl<T: DefaultMonoid> Monoid for T
DefaultMonoid_empty(T) == Default(T)

RECURSIVE empty(_)

Pair_empty(T, U) == <<empty(T), empty(U)>>

First_empty(T) == empty(T)

Last_empty(T) == empty(T)

\* Monoid::empty of type T.
empty(T) ==
    CASE T.c \in {"Any", "All", "Min", "Max", "Sum", "Product"} -> DefaultMonoid_empty(T)
      [] T.c = "First" -> First_empty(T.args[1])
      [] T.c = "Last" -> Last_empty(T.args[1])
      [] T.c = "Predicate" -> Predicate_empty
      [] T.c = "Ordering" -> Ordering_empty
      [] T.c = "Vec" -> Vec_empty
      [] T.c = "String" -> String_empty
      [] T.c = "Pair" -> Pair_empty(T.args[1], T.args[2])

\* The fold with the operands of op exchanged.
RECURSIVE Monoid_fold_flipped(_, _, _)
Monoid_fold_flipped(T, acc, this) ==
    IF this = <<>>
    THEN acc
    ELSE Monoid_fold_flipped(T, op(T, Head(this), acc), Tail(this))

RECURSIVE Monoid_fold(_, _, _)
Monoid_fold(T, acc, this) ==
    IF this = <<>>
    THEN acc
    ELSE Monoid_fold(T, op(T, acc, Head(this)), Tail(this))

\* Monoid::concat of type T.
Monoid_concat(T, this) == Monoid_fold(T, empty(T), this)

(* ------------------------------------------------------- the state machine *)

\* The Semigroup instances exercised.
SemigroupTypes ==
    { AnyTy, AllTy, OrderingTy, UnitTy, StringTy, VecTy(AnyTy),
      MinTy(Signed), MinTy(Unsigned), MaxTy(Signed), MaxTy(Unsigned),
      SumTy(Signed), SumTy(Unsigned), ProductTy(Signed), ProductTy(Unsigned),
      FirstTy(OrderingTy), LastTy(OrderingTy),
      FirstTy(SumTy(Signed)), LastTy(SumTy(Signed)),
      OptionTy(SumTy(Signed)), OptionTy(LastTy(OrderingTy)),
      PairTy(AnyTy, OrderingTy), PairTy(FirstTy(OrderingTy), LastTy(OrderingTy)) }

\* Pairs of integer wrappers: exercised by op and empty only.
WidePairTypes ==
    { PairTy(SumTy(Signed), ProductTy(Unsigned)), PairTy(AllTy, MaxTy(Signed)) }

\* T: Monoid
RECURSIVE IsMonoid(_)
IsMonoid(T) ==
    CASE T.c \in {"Any", "All", "Min", "Max", "Sum", "Product"} -> TRUE
      [] T.c \in {"Ordering", "Vec", "String", "Predicate"} -> TRUE
      [] T.c \in {"First", "Last"} -> IsMonoid(T.args[1])
      [] T.c = "Pair" -> IsMonoid(T.args[1]) /\ IsMonoid(T.args[2])
      [] OTHER -> FALSE

\* T: Copy
RECURSIVE IsCopy(_)
IsCopy(T) ==
    CASE T.c \in {"Vec", "String", "Predicate"} -> FALSE
      [] T.c \in {"Min", "Max", "Sum", "Product", "First", "Last", "Option"} -> IsCopy(T.args[1])
      [] T.c = "Pair" -> IsCopy(T.args[1]) /\ IsCopy(T.args[2])
      [] OTHER -> TRUE

\* The ways a Predicate is built from the tests 1..n.
Builds == {"Semigroup_concat", "Monoid_concat", "op"}

RECURSIVE RightNested(_)
RightNested(ps) ==
    IF Len(ps) = 1 THEN ps[1] ELSE op(PredicateTy, Head(ps), RightNested(Tail(ps)))

Build(how, n) ==
    LET tests == [i \in 1..n |-> Predicate_new(i)]
    IN  CASE how = "Semigroup_concat" -> Semigroup_concat(PredicateTy, tests)[1]
          [] how = "Monoid_concat" -> Monoid_concat(PredicateTy, tests)
          [] how = "op" -> RightNested(tests)

\* The arguments of one call of method m on type T.
Inputs(m, T) ==
    CASE m = "op" -> {<<a, b, c>> : a \in Values(T), b \in Values(T), c \in Values(T)}
      [] m = "empty" -> {<<a>> : a \in Values(T)}
      [] m \in {"Semigroup_concat", "Monoid_concat"} -> SeqsUpTo(Values(T), MaxSeq)
      [] m = "repeat" -> {<<self, n>> : self \in Values(T), n \in 0..MaxRepeat}
      [] m = "call" ->
            UNION { {<<how, n, tv>> : tv \in [1..n -> BOOLEAN]} :
                    how \in Builds, n \in 0..MaxTests }

\* The types method m is called on.
Receivers(m) ==
    CASE m = "op" -> SemigroupTypes \cup WidePairTypes
      [] m = "empty" -> {T \in SemigroupTypes \cup WidePairTypes : IsMonoid(T)}
      [] m = "Semigroup_concat" -> SemigroupTypes
      [] m = "Monoid_concat" -> {T \in SemigroupTypes : IsMonoid(T)}
      [] m = "repeat" -> {T \in SemigroupTypes : IsCopy(T)}
      [] m = "call" -> {PredicateTy}

Methods == {"op", "empty", "Semigroup_concat", "Monoid_concat", "repeat", "call"}

\* A caller about to call one method with its arguments.
Init ==
    /\ pc = "call"
    /\ out = <<>>
    /\ call \in Methods
    /\ ty \in Receivers(call)
    /\ args \in Inputs(call, ty)
    /\ call = "call" => (args[1] = "Monoid_concat" \/ args[2] >= 1)

\* a.op(b).op(c) and a.op(b.op(c))
CallOp ==
    /\ pc = "call"
    /\ call = "op"
    /\ out' = <<op(ty, op(ty, args[1], args[2]), args[3]),
                op(ty, args[1], op(ty, args[2], args[3]))>>
    /\ pc' = "return"
    /\ UNCHANGED <<call, ty, args>>

\* T::empty().op(a) and a.op(T::empty())
CallEmpty ==
    /\ pc = "call"
    /\ call = "empty"
    /\ out' = <<op(ty, empty(ty), args[1]), op(ty, args[1], empty(ty))>>
    /\ pc' = "return"
    /\ UNCHANGED <<call, ty, args>>

CallSemigroupConcat ==
    /\ pc = "call"
    /\ call = "Semigroup_concat"
    /\ out' = Semigroup_concat(ty, args)
    /\ pc' = "return"
    /\ UNCHANGED <<call, ty, args>>

CallMonoidConcat ==
    /\ pc = "call"
    /\ call = "Monoid_concat"
    /\ out' = Monoid_concat(ty, args)
    /\ pc' = "return"
    /\ UNCHANGED <<call, ty, args>>

CallRepeat ==
    /\ pc = "call"
    /\ call = "repeat"
    /\ out' = Semigroup_repeat(ty, args[1], args[2])
    /\ pc' = "return"
    /\ UNCHANGED <<call, ty, args>>

\* Build a predicate from the tests 1..n and call it once.
CallPredicate ==
    /\ pc = "call"
    /\ call = "call"
    /\ out' = Predicate_call(Build(args[1], args[2]), args[3])
    /\ pc' = "return"
    /\ UNCHANGED <<call, ty, args>>

Next ==
    \/ CallOp
    \/ CallEmpty
    \/ CallSemigroupConcat
    \/ CallMonoidConcat
    \/ CallRepeat
    \/ CallPredicate

Spec == Init /\ [][Next]_vars

(* ----------------------------------------------------------- properties *)

Front(xs) == SubSeq(xs, 1, Len(xs) - 1)

\* op(op(...op(x1, x2)..., x(n-1)), xn) of a non-empty sequence.
RECURSIVE LeftFold(_, _)
LeftFold(T, xs) ==
    IF Len(xs) = 1 THEN xs[1] ELSE op(T, LeftFold(T, Front(xs)), xs[Len(xs)])

\* op(...op(op(e, x1), x2)..., xn)
RECURSIVE LeftFoldFrom(_, _, _)
LeftFoldFrom(T, e, xs) ==
    IF xs = <<>> THEN e ELSE op(T, LeftFoldFrom(T, e, Front(xs)), xs[Len(xs)])

\* C1: Semigroup::concat of a non-empty sequence is Some of its left fold in
\* iteration order, and Some(x1) for the one-element sequence.
C1_SemigroupConcatLeftFold ==
    (pc = "return" /\ call = "Semigroup_concat" /\ Len(args) >= 1)
        => /\ out = <<LeftFold(ty, args)>>
           /\ Len(args) = 1 => out = <<args[1]>>

\* Three verdicts whose left fold differs from the fold in any other order.
C1_Witness ==
    /\ pc = "return"
    /\ call = "Semigroup_concat"
    /\ ty.c = "Ordering"
    /\ args = <<"Equal", "Greater", "Less">>
    /\ out = <<"Greater">>

\* C2: Monoid::concat is the left fold that starts from empty(), and is
\* empty() itself for the empty sequence.
C2_MonoidConcatFoldFromEmpty ==
    pc = "return" /\ call = "Monoid_concat"
        => /\ out = LeftFoldFrom(ty, empty(ty), args)
           /\ args = <<>> => out = empty(ty)

C2_Witness ==
    /\ pc = "return"
    /\ call = "Monoid_concat"
    /\ ty.c = "String"
    /\ Len(args) = 3
    /\ args[1] # args[3]
    /\ args[1] # <<>>
    /\ out = args[1] \o args[2] \o args[3]

\* The instances whose identity value is listed: Any, All, Sum and Product
\* over integers, Ordering, Vec, String, and pairs of these.
RECURSIVE Listed(_)
Listed(T) ==
    CASE T.c \in {"Any", "All", "Ordering", "Vec", "String"} -> TRUE
      [] T.c \in {"Sum", "Product"} -> T.args[1].c \in {"i", "u"}
      [] T.c = "Pair" -> Listed(T.args[1]) /\ Listed(T.args[2])
      [] OTHER -> FALSE

RECURSIVE ListedEmpty(_)
ListedEmpty(T) ==
    CASE T.c = "Any" -> FALSE
      [] T.c = "All" -> TRUE
      [] T.c = "Sum" -> 0
      [] T.c = "Product" -> 1
      [] T.c = "Ordering" -> "Equal"
      [] T.c \in {"Vec", "String"} -> <<>>
      [] T.c = "Pair" -> <<ListedEmpty(T.args[1]), ListedEmpty(T.args[2])>>

\* C3: for the listed instances empty() is the listed value and is a left and
\* a right identity of op.
C3_IdentityLaw ==
    (pc = "return" /\ call = "empty" /\ Listed(ty))
        => /\ empty(ty) = ListedEmpty(ty)
           /\ out[1] = args[1]
           /\ out[2] = args[1]

C3_Witness ==
    /\ pc = "return"
    /\ call = "empty"
    /\ ty.c = "Pair"
    /\ Listed(ty)
    /\ args[1][1] # empty(ty.args[1])
    /\ args[1][2] # empty(ty.args[2])
    /\ out = <<args[1], args[1]>>

C5_EmptyConcatIsNone ==
    (pc = "return" /\ call = "Semigroup_concat" /\ args = <<>>) => out = <<>>

\* C5: Semigroup::concat of the empty sequence is None in every instance but
\* the unit type, whose own concat returns Some(()).
C5_EmptyConcatIsNoneButUnit ==
    (pc = "return" /\ call = "Semigroup_concat" /\ args = <<>>)
        => IF ty.c = "Unit" THEN out = <<"()">> ELSE out = <<>>

C5_Witness ==
    /\ pc = "return"
    /\ call = "Semigroup_concat"
    /\ args = <<>>
    /\ ty.c = "Unit"
    /\ out = <<"()">>

\* n sequential self-applications r -> op(r, r) of x.
RECURSIVE SelfApplied(_, _, _)
SelfApplied(T, x, n) ==
    IF n = 0
    THEN x
    ELSE LET r == SelfApplied(T, x, n - 1) IN op(T, r, r)

\* C6: repeat(self, n) is n sequential self-applications of op from self, so
\* repeat(self, 0) = self, and Sum(x).repeat(n) = Sum(x * 2^n) at the
\* integer's width (x * 2^n itself when that is in range).
C6_RepeatDoubles ==
    pc = "return" /\ call = "repeat"
        => LET self == args[1]
               n == args[2]
           IN  /\ n = 0 => out = self
               /\ out = SelfApplied(ty, self, n)
               /\ ty.c = "Sum"
                    => /\ out = Wrap(ty.args[1], self * Pow2(n))
                       /\ self * Pow2(n) \in IntMin(ty.args[1])..IntMax(ty.args[1])
                            => out = self * Pow2(n)

\* A Sum doubled at least twice, in range, where x * 2^n is not x * (n+1).
C6_Witness ==
    /\ pc = "return"
    /\ call = "repeat"
    /\ ty.c = "Sum"
    /\ args[2] >= 2
    /\ out = args[1] * Pow2(args[2])
    /\ out # args[1] * (args[2] + 1)

Least(xs) == CHOOSE m \in {xs[i] : i \in 1..Len(xs)} : \A i \in 1..Len(xs) : m <= xs[i]

\* C7: Monoid::concat of a non-empty sequence of signed integers wrapped in
\* Min is Min of the least element.
C7_MinConcatIsLeast ==
    (pc = "return" /\ call = "Monoid_concat" /\ ty.c = "Min" /\ ty.args[1].c = "i" /\ Len(args) >= 1)
        => out = Least(args)

\* C8: for First<T> and Last<T> the delegated empty() is a left and a right
\* identity of op.
C8_FirstLastIdentity ==
    (pc = "return" /\ call = "empty" /\ ty.c \in {"First", "Last"})
        => /\ out[1] = args[1]
           /\ out[2] = args[1]

\* C9: a predicate built from the tests 1..n by op or concat returns, called
\* once, whether every test is true, and runs each test at most once.
C9_PredicateIsConjunction ==
    pc = "return" /\ call = "call"
        => LET n == args[2]
               tv == args[3]
           IN  /\ out.res = (\A i \in 1..n : tv[i])
               /\ \A i \in 1..n :
                    Cardinality({k \in 1..Len(out.invoked) : out.invoked[k] = i}) <= 1

\* Three tests under Monoid::concat, the second false: the third is not run.
C9_Witness ==
    /\ pc = "return"
    /\ call = "call"
    /\ args[1] = "Monoid_concat"
    /\ args[2] = 3
    /\ args[3][1]
    /\ ~args[3][2]
    /\ out.res = FALSE
    /\ out.invoked = <<1, 2>>

FirstNonEqual(xs) ==
    LET I == {i \in 1..Len(xs) : xs[i] # "Equal"}
    IN  IF I = {} THEN "Equal" ELSE xs[CHOOSE i \in I : \A j \in I : i <= j]

\* C10: Monoid::concat of Ordering values is the first element that is not
\* Equal, Equal when there is none, and the verdict of a prefix that is not
\* Equal is the verdict of the whole sequence.
C10_OrderingFirstNonEqual ==
    (pc = "return" /\ call = "Monoid_concat" /\ ty.c = "Ordering")
        => /\ out = FirstNonEqual(args)
           /\ \A k \in 1..Len(args) :
                Monoid_concat(ty, SubSeq(args, 1, k)) # "Equal"
                    => out = Monoid_concat(ty, SubSeq(args, 1, k))

C10_Witness ==
    /\ pc = "return"
    /\ call = "Monoid_concat"
    /\ ty.c = "Ordering"
    /\ args = <<"Equal", "Less", "Greater">>
    /\ out = "Less"

====
